---- MODULE Spec2Model ----
(***************************************************************************)
(* fermi-dash: the discovery-and-pairing logic of src/fermi_dash/builder.py *)
(*                                                                         *)
(* File names are sequences of lexemes, "." being a lexeme of its own:     *)
(*   sed_plot.png                  <<"sed_plot", ".", "png">>              *)
(*   src_lightcurve_7.0days.png    <<"src","_lightcurve_","7",".","0",     *)
(*                                   "days",".","png">>                    *)
(* A float is held in hundredths (7.0 is 700, 7.25 is 725).                *)
(* An Optional value is a record [some |-> BOOLEAN, v |-> value].          *)
(***************************************************************************)
EXTENDS Integers, Sequences, FiniteSets, TLC

VARIABLES
  pc,        \* position of build_dashboard, or of a function applied alone
  stack,     \* _walk_names: the containers being iterated, innermost last
  cur,       \* _walk_names: the entry handled by the last step
  found,     \* load_target_names: found
  names,     \* load_target_names: names (the result)
  opts,      \* BuildOptions: days, prefer_html, allow_pdf
  i,         \* build_dashboard: index of the next name of the for loop
  fs,        \* the directory root/names[k] as the loop found it, per k
  fsLog,     \* the filesystem operations performed so far, in order
  tabs,      \* build_dashboard: one record per appended tab
  exitCode,  \* 0 while running or returned, else the SystemExit status
  saved,     \* whether pn_save has been called
  call,      \* arguments of a function applied alone
  ret        \* its result

vars == <<pc, stack, cur, found, names, opts, i, fs, fsLog, tabs, exitCode,
          saved, call, ret>>

\* ------------------------------------------------------------ bounds

MaxFound == 3
MaxDepth == 2
MaxFiles == 2
MaxDays == 3
MaxExts == 2

\* ------------------------------------------------------------ helpers

None == [some |-> FALSE, v |-> <<>>]
Some(x) == [some |-> TRUE, v |-> x]

\* Optional[Path]: a path is a non-empty sequence, None is the empty one
NoPath == <<>>

Range(s) == {s[k] : k \in DOMAIN s}

SeqsUpTo(S, n) == UNION {[1..m -> S] : m \in 0..n}

DistinctSeqsUpTo(S, n) ==
  {s \in SeqsUpTo(S, n) : \A a, b \in DOMAIN s : a # b => s[a] # s[b]}

Min(S) == CHOOSE x \in S : \A y \in S : x <= y
Max(S) == CHOOSE x \in S : \A y \in S : x >= y

\* str.lower() on the lexemes the model uses
Lower(s) ==
  CASE s = "PNG" -> "png"
    [] s = "SVG" -> "svg"
    [] s = "PDF" -> "pdf"
    [] s = "_LIGHTCURVE_" -> "_lightcurve_"
    [] s = "DAYS" -> "days"
    [] OTHER -> s

LowerSeq(s) == [k \in DOMAIN s |-> Lower(s[k])]

\* PurePath.suffix: from the last "." on, unless that "." starts or ends the name
Suffix(n) ==
  LET dots == {k \in DOMAIN n : n[k] = "."}
  IN IF dots = {} THEN <<>>
     ELSE LET k == Max(dots)
          IN IF 1 < k /\ k < Len(n) THEN SubSeq(n, k, Len(n)) ELSE <<>>

IMG_EXTS == {<<".", "png">>, <<".", "jpg">>, <<".", "jpeg">>, <<".", "gif">>,
             <<".", "svg">>}
HTML_EXTS == {<<".", "html">>}
PDF_EXTS == {<<".", "pdf">>}

\* the list of line 213
EXT_ORDER == <<<<".", "png">>, <<".", "jpg">>, <<".", "jpeg">>, <<".", "gif">>,
               <<".", "svg">>, <<".", "html">>>>

\* ------------------------------------------------------------ regex

\* \d+ tokens of the model and float() of "<int>.<frac>" in hundredths
DigitLex == {"0", "00", "7", "30"}

IntOf(s) == CASE s = "0" -> 0 [] s = "00" -> 0 [] s = "7" -> 7 [] s = "30" -> 30

FracOf(s) == CASE s = "0" -> 0 [] s = "00" -> 0 [] s = "7" -> 70 [] s = "30" -> 30

Float(ip, fp) == IntOf(ip) * 100 + FracOf(fp)

\* LC_PATTERNS[0] matched at lexeme k: _lightcurve_(\d+\.\d+)days(?=\.)
MatchPlain(n, k) ==
  /\ k + 5 <= Len(n)
  /\ Lower(n[k]) = "_lightcurve_"
  /\ n[k + 1] \in DigitLex
  /\ n[k + 2] = "."
  /\ n[k + 3] \in DigitLex
  /\ Lower(n[k + 4]) = "days"
  /\ n[k + 5] = "."

\* LC_PATTERNS[1] matched at lexeme k: _lightcurve_data_(\d+\.\d+)days(?=\.)
MatchData(n, k) ==
  /\ k + 6 <= Len(n)
  /\ Lower(n[k]) = "_lightcurve_"
  /\ Lower(n[k + 1]) = "data_"
  /\ n[k + 2] \in DigitLex
  /\ n[k + 3] = "."
  /\ n[k + 4] \in DigitLex
  /\ Lower(n[k + 5]) = "days"
  /\ n[k + 6] = "."

\* rx.search(p.name) then float(m.group("days")), over LC_PATTERNS in order:
\* the leftmost match of the first pattern that matches at all
DaysVal(n) ==
  LET plain == {k \in DOMAIN n : MatchPlain(n, k)}
      data == {k \in DOMAIN n : MatchData(n, k)}
  IN IF plain # {}
       THEN Some(Float(n[Min(plain) + 1], n[Min(plain) + 3]))
     ELSE IF data # {}
       THEN Some(Float(n[Min(data) + 2], n[Min(data) + 4]))
     ELSE None

\* ------------------------------------------------------------ find_sed_path

\* target_dir.glob("sed_plot.*"), case-sensitive
GlobSedPlot(n) == Len(n) >= 2 /\ n[1] = "sed_plot" /\ n[2] = "."

\* the first path of s whose lower-cased suffix is in exts, or NoPath
RECURSIVE FirstWith(_, _, _)
FirstWith(s, exts, k) ==
  IF k > Len(s) THEN NoPath
  ELSE IF LowerSeq(Suffix(s[k])) \in exts THEN s[k]
  ELSE FirstWith(s, exts, k + 1)

FindSedPathPdfFirst(target_dir, allow_pdf) ==
  LET listing == IF target_dir.some THEN target_dir.v ELSE <<>>
      candidates == SelectSeq(listing, GlobSedPlot)
  IN IF allow_pdf /\ FirstWith(candidates, PDF_EXTS, 1) # NoPath
       THEN FirstWith(candidates, PDF_EXTS, 1)
     ELSE FirstWith(candidates, IMG_EXTS, 1)

FindSedPath(target_dir, allow_pdf) ==
  LET listing == IF target_dir.some THEN target_dir.v ELSE <<>>
      candidates == SelectSeq(listing, GlobSedPlot)
  IN IF candidates = <<>> THEN NoPath
     ELSE IF FirstWith(candidates, IMG_EXTS, 1) # NoPath
       THEN FirstWith(candidates, IMG_EXTS, 1)
     ELSE IF allow_pdf THEN FirstWith(candidates, PDF_EXTS, 1)
     ELSE NoPath

\* ------------------------------------------------------------ discover_lightcurves

EmptyMap == [x \in {} |-> <<>>]

\* out.setdefault(days_val, {})[ext] = p
SetDefaultPut(out, d, ext, p) ==
  IF d \in DOMAIN out
    THEN [out EXCEPT ![d] = [e \in DOMAIN @ \cup {ext} |-> IF e = ext THEN p ELSE @[e]]]
    ELSE [x \in DOMAIN out \cup {d} |-> IF x = d THEN (ext :> p) ELSE out[x]]

\* the same without the extension test of line 102
ScanEntryAnyExt(out, p) ==
  IF ~p.is_file THEN out
  ELSE IF ~DaysVal(p.name).some THEN out
  ELSE SetDefaultPut(out, DaysVal(p.name).v, LowerSeq(Suffix(p.name)), p.name)

\* one iteration of the for loop of lines 98-114
ScanEntry(out, p) ==
  IF ~p.is_file THEN out
  ELSE IF LowerSeq(Suffix(p.name)) \notin (IMG_EXTS \cup HTML_EXTS) THEN out
  ELSE IF ~DaysVal(p.name).some THEN out
  ELSE SetDefaultPut(out, DaysVal(p.name).v, LowerSeq(Suffix(p.name)), p.name)

RECURSIVE ScanFrom(_, _, _)
ScanFrom(entries, k, out) ==
  IF k > Len(entries) THEN out
  ELSE ScanFrom(entries, k + 1, ScanEntry(out, entries[k]))

DiscoverLightcurves(lc_dir) ==
  IF ~lc_dir.some THEN EmptyMap ELSE ScanFrom(lc_dir.v, 1, EmptyMap)

\* ------------------------------------------------------------ bin selection

\* "dedupe, preserve order": the seen-set loop of lines 61-66, and
\* list(dict.fromkeys(...)) of line 201
RECURSIVE OrderedUniqueFrom(_, _, _, _)
OrderedUniqueFrom(s, k, seen, acc) ==
  IF k > Len(s) THEN acc
  ELSE IF s[k] \in seen THEN OrderedUniqueFrom(s, k + 1, seen, acc)
  ELSE OrderedUniqueFrom(s, k + 1, seen \cup {s[k]}, Append(acc, s[k]))

OrderedUnique(s) == OrderedUniqueFrom(s, 1, {}, <<>>)

RECURSIVE SortedSeq(_)
SortedSeq(S) ==
  IF S = {} THEN <<>> ELSE <<Min(S)>> \o SortedSeq(S \ {Min(S)})

RECURSIVE ReverseSortedSeq(_)
ReverseSortedSeq(S) ==
  IF S = {} THEN <<>> ELSE <<Max(S)>> \o ReverseSortedSeq(S \ {Max(S)})

\* sorted(found_map.keys()) with the order reversed
SortedKeysDescending(found_map) == ReverseSortedSeq(DOMAIN found_map)

\* sorted(found_map.keys())
SortedKeys(found_map) == SortedSeq(DOMAIN found_map)

\* truth value of opts.days: None and the empty list are both false
Truthy(days) == days.some /\ days.v # <<>>

\* lines 200-203 without the dedupe
WantedDaysNoDedupe(days, found_map) ==
  IF Truthy(days) THEN days.v ELSE SortedKeys(found_map)

\* lines 200-203
WantedDays(days, found_map) ==
  IF Truthy(days) THEN OrderedUnique(days.v) ELSE SortedKeys(found_map)

\* the for loop of lines 213-216
RECURSIVE FirstInOrder(_, _)
FirstInOrder(files, k) ==
  IF k > Len(EXT_ORDER) THEN NoPath
  ELSE IF EXT_ORDER[k] \in DOMAIN files THEN files[EXT_ORDER[k]]
  ELSE FirstInOrder(files, k + 1)

\* lines 209-216 with the html preference applied whatever prefer_html is
ChooseBestHtmlAlways(files, prefer_html) ==
  IF <<".", "html">> \in DOMAIN files THEN files[<<".", "html">>]
  ELSE FirstInOrder(files, 1)

\* lines 209-216
ChooseBest(files, prefer_html) ==
  IF prefer_html /\ <<".", "html">> \in DOMAIN files THEN files[<<".", "html">>]
  ELSE FirstInOrder(files, 1)

\* the for loop of lines 206-218
RECURSIVE PairsFrom(_, _, _, _, _)
PairsFrom(found_map, wanted_days, prefer_html, k, pairs) ==
  IF k > Len(wanted_days) THEN pairs
  ELSE LET d == wanted_days[k]
           files == IF d \in DOMAIN found_map THEN found_map[d] ELSE EmptyMap
           chosen == ChooseBest(files, prefer_html)
       IN PairsFrom(found_map, wanted_days, prefer_html, k + 1,
                    IF chosen # NoPath THEN Append(pairs, <<d, chosen>>) ELSE pairs)

SelectPairs(found_map, days, prefer_html) ==
  PairsFrom(found_map, WantedDays(days, found_map), prefer_html, 1, <<>>)

\* ------------------------------------------------------------ _walk_names

\* parsed YAML scalars: the type and the literal as written in the document
Scalars ==
  {[type |-> "str", lit |-> "1"], [type |-> "int", lit |-> "1"],
   [type |-> "float", lit |-> "1.50"], [type |-> "bool", lit |-> "true"],
   [type |-> "none", lit |-> "null"]}

Containers == {[type |-> "dict", lit |-> ""], [type |-> "list", lit |-> ""]}

Values == Scalars \cup Containers

\* str(v)
PyStr(v) ==
  CASE v.type = "str" -> v.lit
    [] v.type = "int" -> v.lit
    [] v.type = "float" -> (CASE v.lit = "1.50" -> "1.5" [] OTHER -> v.lit)
    [] v.type = "bool" -> (CASE v.lit = "true" -> "True" [] OTHER -> "False")
    [] OTHER -> "None"

\* isinstance(v, (str, int, float)) with bool excluded
IsNameScalarNoBool(v) == v.type \in {"str", "int", "float"}

\* isinstance(v, (str, int, float)): bool is a subclass of int
IsNameScalar(v) == v.type \in {"str", "int", "float", "bool"}

NoEntry == [key |-> "none", value |-> [type |-> "none", lit |-> "null"]]

IsContainer(v) == v.type \in {"dict", "list"}

Frame(v) == [kind |-> v.type, hasName |-> FALSE]

Top == stack[Len(stack)]

\* the stack with the top dict marked as having had its "name" key iterated
Marked(key) ==
  IF key = "name" THEN [stack EXCEPT ![Len(stack)].hasName = TRUE] ELSE stack

BuildVarsIdle ==
  /\ i = 0 /\ fs = <<>> /\ fsLog = <<>> /\ tabs = <<>>
  /\ exitCode = 0 /\ saved = FALSE

WalkVarsIdle ==
  /\ stack = <<>> /\ cur = NoEntry /\ found = <<>> /\ names = <<>>

\* _walk_names(data, found) on the parsed document
WalkRoot ==
  /\ pc = "start"
  /\ \E v \in Values :
       /\ cur' = [key |-> "root", value |-> v]
       /\ IF IsContainer(v)
            THEN stack' = <<Frame(v)>> /\ pc' = "walk"
            ELSE stack' = stack /\ pc' = "walked"
  /\ UNCHANGED <<found, names, opts, i, fs, fsLog, tabs, exitCode, saved, call, ret>>

\* one iteration of "for k, v in obj.items()"
WalkDictEntry ==
  /\ pc = "walk"
  /\ Top.kind = "dict"
  /\ \E key \in {"name", "other"}, v \in Values :
       /\ key = "name" => ~Top.hasName
       /\ cur' = [key |-> key, value |-> v]
       /\ IF key = "name" /\ IsNameScalar(v)
            THEN /\ Len(found) < MaxFound
                 /\ found' = Append(found, PyStr(v))
                 /\ stack' = Marked(key)
            ELSE /\ found' = found
                 /\ IF IsContainer(v)
                      THEN /\ Len(stack) < MaxDepth
                           /\ stack' = Append(Marked(key), Frame(v))
                      ELSE stack' = Marked(key)
  /\ UNCHANGED <<pc, names, opts, i, fs, fsLog, tabs, exitCode, saved, call, ret>>

\* one iteration of "for item in obj"
WalkListItem ==
  /\ pc = "walk"
  /\ Top.kind = "list"
  /\ \E v \in Values :
       /\ cur' = [key |-> "item", value |-> v]
       /\ IF IsContainer(v)
            THEN /\ Len(stack) < MaxDepth
                 /\ stack' = Append(stack, Frame(v))
            ELSE stack' = stack
  /\ UNCHANGED <<pc, found, names, opts, i, fs, fsLog, tabs, exitCode, saved, call, ret>>

\* the loop over a container ends and _walk_names returns to its caller
WalkEnd ==
  /\ pc = "walk"
  /\ stack' = SubSeq(stack, 1, Len(stack) - 1)
  /\ cur' = NoEntry
  /\ pc' = IF Len(stack) = 1 THEN "walked" ELSE "walk"
  /\ UNCHANGED <<found, names, opts, i, fs, fsLog, tabs, exitCode, saved, call, ret>>

\* load_target_names without the dedupe loop
DedupeNamesKeepAll(fnd) == fnd

\* load_target_names, lines 60-67
DedupeNames(fnd) == OrderedUnique(fnd)

LoadTargetNames ==
  /\ pc = "walked"
  /\ names' = DedupeNames(found)
  /\ pc' = "loaded"
  /\ UNCHANGED <<stack, cur, found, opts, i, fs, fsLog, tabs, exitCode, saved, call, ret>>

\* ------------------------------------------------------------ build_dashboard

ExitNoNames == 2
ExitNoTabs == 3

\* the option sets the build is run with
BuildOptionSets ==
  {[days |-> None, prefer_html |-> FALSE, allow_pdf |-> FALSE],
   [days |-> Some(<<3000, 700, 9900>>), prefer_html |-> TRUE, allow_pdf |-> TRUE],
   [days |-> Some(<<>>), prefer_html |-> TRUE, allow_pdf |-> FALSE]}

SedPng == <<"sed_plot", ".", "png">>
SedPdf == <<"sed_plot", ".", "pdf">>
LcPlain7Png == <<"src", "_lightcurve_", "7", ".", "0", "days", ".", "png">>
LcData7Html == <<"src", "_lightcurve_", "data_", "7", ".", "00", "days", ".", "html">>
LcUpper30Png == <<"src", "_LIGHTCURVE_", "30", ".", "0", "DAYS", ".", "PNG">>
LcNoDecimalPng == <<"src", "_lightcurve_", "30", "days", ".", "png">>
LcPlain7Txt == <<"src", "_lightcurve_", "7", ".", "0", "days", ".", "txt">>

File(n) == [name |-> n, is_file |-> TRUE]
SubDir(n) == [name |-> n, is_file |-> FALSE]

\* what root/name can be: missing; a bare directory; one with SED candidates
\* and lightcurves; one with a pdf SED only and no file that matches
TargetDirs ==
  {[exists |-> FALSE, listing |-> <<>>, lc |-> None],
   [exists |-> TRUE, listing |-> <<>>, lc |-> None],
   [exists |-> TRUE, listing |-> <<SedPdf, SedPng>>,
    lc |-> Some(<<File(LcPlain7Png), File(LcData7Html), File(LcUpper30Png)>>)],
   [exists |-> TRUE, listing |-> <<SedPdf>>,
    lc |-> Some(<<File(LcNoDecimalPng), File(LcPlain7Txt)>>)]}

\* "if not names" that never holds
NamesEmptyNever(ns) == FALSE

\* "if not names", line 178
NamesEmpty(ns) == ns = <<>>

\* "if not tabs" that never holds
TabsEmptyNever(t) == FALSE

\* "if not tabs", line 256
TabsEmpty(t) == t = <<>>

\* what one iteration computes for an existing target directory, lines 189-218
TabRecord(name, d) ==
  [name |-> name,
   sed_path |-> FindSedPath(Some(d.listing), opts.allow_pdf),
   pairs |-> SelectPairs(DiscoverLightcurves(d.lc), opts.days, opts.prefer_html)]

\* the filesystem operations of one iteration, in order
FsOps(name, d) ==
  <<[op |-> "exists", name |-> name]>>
  \o (IF d.exists
        THEN <<[op |-> "glob", name |-> name], [op |-> "lc_exists", name |-> name]>>
             \o (IF d.lc.some THEN <<[op |-> "iterdir", name |-> name]>> ELSE <<>>)
        ELSE <<>>)

\* the loop body with the "continue" of line 187 left out
TabsAfterAppendAlways(t, name, d) == Append(t, TabRecord(name, d))

\* tabs after one iteration of the for loop of lines 183-249
TabsAfter(t, name, d) ==
  IF ~d.exists THEN t ELSE Append(t, TabRecord(name, d))

\* lines 177-180; load_target_names has returned and its locals are gone
CheckNames ==
  /\ pc = "loaded"
  /\ found' = <<>>
  /\ cur' = NoEntry
  /\ IF NamesEmpty(names)
       THEN exitCode' = ExitNoNames /\ pc' = "exit" /\ i' = i
       ELSE exitCode' = exitCode /\ pc' = "loop" /\ i' = 1
  /\ UNCHANGED <<stack, names, opts, fs, fsLog, tabs, saved, call, ret>>

\* one iteration of "for name in names", lines 183-254
TargetStep ==
  /\ pc = "loop"
  /\ i <= Len(names)
  /\ \E d \in TargetDirs :
       /\ fs' = Append(fs, d)
       /\ fsLog' = fsLog \o FsOps(names[i], d)
       /\ tabs' = TabsAfter(tabs, names[i], d)
  /\ i' = i + 1
  /\ UNCHANGED <<pc, stack, cur, found, names, opts, exitCode, saved, call, ret>>

\* lines 256-357
Finish ==
  /\ pc = "loop"
  /\ i > Len(names)
  /\ IF TabsEmpty(tabs)
       THEN exitCode' = ExitNoTabs /\ pc' = "exit" /\ saved' = saved
       ELSE exitCode' = exitCode /\ pc' = "done" /\ saved' = TRUE
  /\ UNCHANGED <<stack, cur, found, names, opts, i, fs, fsLog, tabs, call, ret>>

Init ==
  /\ pc = "start"
  /\ opts \in BuildOptionSets
  /\ WalkVarsIdle
  /\ BuildVarsIdle
  /\ call = None /\ ret = NoPath

Next ==
  \/ WalkRoot
  \/ WalkDictEntry
  \/ WalkListItem
  \/ WalkEnd
  \/ LoadTargetNames
  \/ CheckNames
  \/ TargetStep
  \/ Finish

Spec == Init /\ [][Next]_vars

\* ------------------------------------------------------------ find_sed_path alone

SedNames ==
  {SedPng, SedPdf, <<"sed_plot", ".", "SVG">>, <<"sed_plot", ".", "PDF">>,
   <<"sed_plot", ".", "txt">>, <<"sed_plot", ".", "html">>, <<"other", ".", "png">>}

DefaultOpts == [days |-> None, prefer_html |-> FALSE, allow_pdf |-> FALSE]

FunctionInit ==
  /\ pc = "call"
  /\ opts = DefaultOpts
  /\ WalkVarsIdle
  /\ BuildVarsIdle
  /\ ret = NoPath

SedInit ==
  /\ FunctionInit
  /\ call \in [target_dir : {None} \cup {Some(l) : l \in DistinctSeqsUpTo(SedNames, MaxFiles)},
               allow_pdf : BOOLEAN]

FindSedPathCall ==
  /\ pc = "call"
  /\ ret' = FindSedPath(call.target_dir, call.allow_pdf)
  /\ pc' = "return"
  /\ UNCHANGED <<stack, cur, found, names, opts, i, fs, fsLog, tabs, exitCode, saved, call>>

SedNext == FindSedPathCall

SedSpec == SedInit /\ [][SedNext]_vars

\* ------------------------------------------------------------ discover_lightcurves alone

LcEntries ==
  {File(LcPlain7Png), File(LcData7Html), File(LcUpper30Png), File(LcNoDecimalPng),
   File(LcPlain7Txt),
   File(<<"src", "_lightcurve_", "7", ".", "0", "days", ".", "pdf">>),
   File(<<"src", "_lightcurve_", "7", ".", "00", "days", ".", "PNG">>),
   File(<<"src", "_lightcurve_", "7", ".", "0", "days", "_v2", ".", "png">>),
   File(<<"src", "_lightcurve_", "30", ".", "0", "days", ".", "v2", ".", "jpg">>),
   File(<<"a", "_lightcurve_", "data_", "7", ".", "0", "days", ".",
          "b", "_lightcurve_", "30", ".", "0", "days", ".", "png">>),
   SubDir(<<"src", "_lightcurve_", "0", ".", "7", "days", ".", "png">>)}

LcInit ==
  /\ FunctionInit
  /\ call \in [lc_dir : {None} \cup {Some(l) : l \in DistinctSeqsUpTo(LcEntries, MaxFiles)}]

DiscoverLightcurvesCall ==
  /\ pc = "call"
  /\ ret' = DiscoverLightcurves(call.lc_dir)
  /\ pc' = "return"
  /\ UNCHANGED <<stack, cur, found, names, opts, i, fs, fsLog, tabs, exitCode, saved, call>>

LcNext == DiscoverLightcurvesCall

LcSpec == LcInit /\ [][LcNext]_vars

\* ------------------------------------------------------------ bin selection alone

IndexBins == {700, 3000}
RequestBins == {700, 3000, 9900}

ExtSets == {E \in SUBSET Range(EXT_ORDER) : E # {} /\ Cardinality(E) <= MaxExts}

\* every index discover_lightcurves can return over IndexBins: each bin it holds
\* has at least one extension; the artifact of (d, e) is the path <<d, e>>
IndexMaps ==
  UNION {{[d \in B |-> [e \in f[d] |-> <<d, e>>]] : f \in [B -> ExtSets]} :
         B \in SUBSET IndexBins}

SelInit ==
  /\ FunctionInit
  /\ call \in [found_map : IndexMaps,
               days : {None} \cup {Some(l) : l \in SeqsUpTo(RequestBins, MaxDays)},
               prefer_html : BOOLEAN]

SelectPairsCall ==
  /\ pc = "call"
  /\ ret' = SelectPairs(call.found_map, call.days, call.prefer_html)
  /\ pc' = "return"
  /\ UNCHANGED <<stack, cur, found, names, opts, i, fs, fsLog, tabs, exitCode, saved, call>>

SelNext == SelectPairsCall

SelSpec == SelInit /\ [][SelNext]_vars

\* ------------------------------------------------------------ properties

NoDuplicates(s) == \A a, b \in DOMAIN s : a # b => s[a] # s[b]

FirstIndex(s, x) == Min({k \in DOMAIN s : s[k] = x})

\* s lists, without repeats, the elements of r that are in kept, each
\* placed by its first occurrence in r
FirstOccurrenceOrder(s, r, kept) ==
  /\ NoDuplicates(s)
  /\ Range(s) = Range(r) \cap kept
  /\ \A a, b \in DOMAIN s : a < b => FirstIndex(r, s[a]) < FirstIndex(r, s[b])

BinsOf(pairs) == [k \in DOMAIN pairs |-> pairs[k][1]]

\* C1: the names load_target_names returns hold no string twice, and stand in
\* the order in which the depth-first walk first reached each of them.
C1_NamesFirstOccurrenceOrder ==
  pc = "loaded" => FirstOccurrenceOrder(names, found, Range(found))

C1_Witness ==
  /\ pc = "loaded"
  /\ Len(names) >= 2
  /\ Len(found) > Len(names)
  /\ found[1] # found[2]
  /\ found[3] = found[1]

\* C2: a step of the walk that handles a map entry with key "name" appends
\* the string form of the value exactly when the value is a string, an
\* integer or a float; for a boolean, null, a map or a sequence it appends
\* nothing.
C2_NameCollectedIffStrIntFloat ==
  [][cur'.key = "name" =>
       IF cur'.value.type \in {"str", "int", "float"}
         THEN found' = Append(found, PyStr(cur'.value))
         ELSE found' = found]_vars

\* the candidates find_sed_path sees, by kind
SedCandidates(target_dir) ==
  IF target_dir.some THEN {n \in Range(target_dir.v) : GlobSedPlot(n)} ELSE {}

SedImages(target_dir) ==
  {n \in SedCandidates(target_dir) : LowerSeq(Suffix(n)) \in IMG_EXTS}

SedPdfs(target_dir) ==
  {n \in SedCandidates(target_dir) : LowerSeq(Suffix(n)) \in PDF_EXTS}

\* C3: find_sed_path returns an image candidate whenever one exists, whatever
\* allow_pdf is; with no image candidate it returns a pdf candidate if and
\* only if allow_pdf is true and a pdf candidate exists; otherwise None.
C3_SedPreference ==
  pc = "return" =>
    LET imgs == SedImages(call.target_dir)
        pdfs == SedPdfs(call.target_dir)
    IN /\ imgs # {} => ret \in imgs
       /\ (imgs = {} /\ call.allow_pdf /\ pdfs # {}) => ret \in pdfs
       /\ (imgs = {} /\ ~(call.allow_pdf /\ pdfs # {})) => ret = NoPath

C3_Witness ==
  /\ pc = "return"
  /\ call.allow_pdf
  /\ call.target_dir.some
  /\ call.target_dir.v = <<SedPdf, SedPng>>
  /\ ret = SedPng

\* the bins a requested list asks for that the index holds, by first occurrence
RequestedBinsSelected ==
  FirstOccurrenceOrder(BinsOf(ret), call.days.v, DOMAIN call.found_map)

AllBinsAscending ==
  /\ Range(BinsOf(ret)) = DOMAIN call.found_map
  /\ Len(ret) = Cardinality(DOMAIN call.found_map)
  /\ \A a, b \in DOMAIN ret : a < b => ret[a][1] < ret[b][1]

\* C4 as stated: for every provided list of requested bins, the empty list
\* included, the output bins are the requested bins present in the index,
\* deduplicated by first occurrence, in the caller's order.
C4_ProvidedBinsExactly ==
  (pc = "return" /\ call.days.some) => RequestedBinsSelected

\* C4 amended: the same for every non-empty list of requested bins; an empty
\* list is treated as no list, and every bin of the index is output in
\* ascending order.
C4_NonEmptyBinsExactly ==
  /\ (pc = "return" /\ call.days.some /\ call.days.v # <<>>) => RequestedBinsSelected
  /\ (pc = "return" /\ call.days.some /\ call.days.v = <<>>) => AllBinsAscending

C4_Witness ==
  /\ pc = "return"
  /\ call.days = Some(<<3000, 700, 3000>>)
  /\ BinsOf(ret) = <<3000, 700>>

\* C5: with no requested bins the output has exactly one entry for every bin
\* of the index, in strictly ascending order; with or without requested bins
\* no two entries of the output have the same bin.
C5_AllBinsAscendingNoRepeat ==
  pc = "return" =>
    /\ ~call.days.some => AllBinsAscending
    /\ NoDuplicates(BinsOf(ret))

C5_Witness ==
  /\ pc = "return"
  /\ ~call.days.some
  /\ BinsOf(ret) = <<700, 3000>>

Rank(e) == CHOOSE k \in DOMAIN EXT_ORDER : EXT_ORDER[k] = e

\* C6: the artifact picked for a bin is the html one if prefer_html is true
\* and the bin has one; otherwise it is that of the first extension the bin
\* has in the order png, jpg, jpeg, gif, svg, html.
C6_FormatPreference ==
  pc = "return" =>
    \A k \in DOMAIN ret :
      LET files == call.found_map[ret[k][1]]
      IN \E e \in DOMAIN files :
           /\ ret[k][2] = files[e]
           /\ IF call.prefer_html /\ <<".", "html">> \in DOMAIN files
                THEN e = <<".", "html">>
                ELSE \A e2 \in DOMAIN files : Rank(e) <= Rank(e2)

C6_Witness ==
  /\ pc = "return"
  /\ ~call.prefer_html
  /\ \E k \in DOMAIN ret :
       /\ DOMAIN call.found_map[ret[k][1]] = {<<".", "html">>, <<".", "svg">>}
       /\ ret[k][2] = <<ret[k][1], <<".", "svg">>>>

\* C7: when the configuration yields no name the build ends with the
\* ConfigurationEmpty status, and no existence check, SED scan or lightcurve
\* scan has been performed, nor anything saved.
C7_EmptyConfigAbortsBeforeScan ==
  /\ (pc \in {"exit", "done"} /\ names = <<>>) =>
       (exitCode = ExitNoNames /\ fsLog = <<>> /\ ~saved)
  /\ exitCode = ExitNoNames => (fsLog = <<>> /\ names = <<>>)

C7_Witness ==
  /\ pc = "exit"
  /\ exitCode = ExitNoNames
  /\ fsLog = <<>>

\* the names among the first Len(dirs) whose directory exists, in order
RECURSIVE ExistingNames(_, _, _)
ExistingNames(ns, dirs, k) ==
  IF k > Len(dirs) THEN <<>>
  ELSE (IF dirs[k].exists THEN <<ns[k]>> ELSE <<>>) \o ExistingNames(ns, dirs, k + 1)

TabNames == [k \in DOMAIN tabs |-> tabs[k].name]

\* C8: the tabs hold one record for each name whose directory exists and none
\* for the others, in the order of the names; a missing directory does not
\* stop the loop; a directory with no SED and no lightcurves still gets a
\* record, with no SED path and no pairs.
C8_ManifestMatchesExistingDirs ==
  pc \in {"loop", "exit", "done"} =>
    /\ TabNames = ExistingNames(names, fs, 1)
    /\ (pc \in {"exit", "done"} /\ names # <<>>) => Len(fs) = Len(names)
    /\ \A k \in DOMAIN fs :
         (fs[k].exists /\ fs[k].listing = <<>> /\ ~fs[k].lc.some) =>
           \E t \in DOMAIN tabs :
             tabs[t] = [name |-> names[k], sed_path |-> NoPath, pairs |-> <<>>]

C8_Witness ==
  /\ pc = "done"
  /\ Len(names) = 3
  /\ ~fs[1].exists
  /\ fs[2].exists /\ fs[2].listing = <<>> /\ ~fs[2].lc.some
  /\ fs[3].exists /\ fs[3].listing # <<>>
  /\ TabNames = <<names[2], names[3]>>
  /\ tabs[1].sed_path = NoPath /\ tabs[1].pairs = <<>>

\* C9: with at least one name, the build ends with the NoResolvableTargets
\* status if and only if no name's directory exists; that status differs
\* from the ConfigurationEmpty one; after either nothing has been saved.
C9_NoTargetsAbort ==
  /\ (pc \in {"exit", "done"} /\ names # <<>>) =>
       (exitCode = ExitNoTabs <=> \A k \in DOMAIN names : ~fs[k].exists)
  /\ ExitNoTabs # ExitNoNames
  /\ exitCode \in {ExitNoNames, ExitNoTabs} => ~saved
  /\ pc = "exit" <=> exitCode \in {ExitNoNames, ExitNoTabs}
  /\ pc = "done" <=> saved

C9_Witness ==
  /\ pc = "exit"
  /\ exitCode = ExitNoTabs
  /\ Len(names) >= 2
  /\ Len(fs) = Len(names)

\* the regular files of lc_dir with a visual extension
VisualFiles(lc_dir) ==
  IF lc_dir.some
    THEN {p \in Range(lc_dir.v) :
            p.is_file /\ LowerSeq(Suffix(p.name)) \in IMG_EXTS \cup HTML_EXTS}
    ELSE {}

\* every numeric value with which a name matches one of the two patterns
MatchValues(n) ==
  {Float(n[k + 1], n[k + 3]) : k \in {j \in DOMAIN n : MatchPlain(n, j)}}
  \cup {Float(n[k + 2], n[k + 4]) : k \in {j \in DOMAIN n : MatchData(n, j)}}

\* the value the scan reads from a name: that of the leftmost match of the
\* plain pattern, or with no such match that of the leftmost match of the
\* data pattern
ScannedValues(n) ==
  LET plain == {j \in DOMAIN n : MatchPlain(n, j)}
      data == {j \in DOMAIN n : MatchData(n, j)}
  IN IF plain # {} THEN {Float(n[Min(plain) + 1], n[Min(plain) + 3])}
     ELSE IF data # {} THEN {Float(n[Min(data) + 2], n[Min(data) + 4])}
     ELSE {}

AllBins == {Float(a, b) : a \in DigitLex, b \in DigitLex}
AllSuffixes == IMG_EXTS \cup HTML_EXTS \cup PDF_EXTS \cup {<<".", "txt">>, <<>>}

\* the index holds (b, e) exactly for the files that give (b, e), by every
\* match of the name or by the match the scan reads, and what it holds there
\* is one of those files
IndexIs(everyMatch) ==
  /\ DOMAIN ret \subseteq AllBins
  /\ \A b \in DOMAIN ret : DOMAIN ret[b] \subseteq AllSuffixes
  /\ \A b \in AllBins, e \in AllSuffixes :
       LET givers == {p \in VisualFiles(call.lc_dir) :
                        LowerSeq(Suffix(p.name)) = e /\ b \in (IF everyMatch THEN MatchValues(p.name)
                                   ELSE ScannedValues(p.name))}
       IN /\ (b \in DOMAIN ret /\ e \in DOMAIN ret[b]) <=> givers # {}
          /\ (b \in DOMAIN ret /\ e \in DOMAIN ret[b]) =>
               ret[b][e] \in {p.name : p \in givers}
  /\ ~call.lc_dir.some => ret = EmptyMap

\* C10 as stated: the index holds an artifact under (b, e) if and only if
\* some regular file of lc_dir has lower-cased extension e, a visual one, and
\* a name that matches a pattern with numeric value b; the artifact is one of
\* those files; a missing lc_dir gives the empty index.
C10_IndexOfEveryMatch == pc = "return" => IndexIs(TRUE)

\* C10 amended: the same with b the value the scan reads from the name, that
\* of the leftmost plain match, or else of the leftmost data match: a name
\* that matches more than once is indexed under that one value only.
C10_IndexOfScannedMatch == pc = "return" => IndexIs(FALSE)

C10_Witness ==
  /\ pc = "return"
  /\ call.lc_dir.some
  /\ Len(call.lc_dir.v) = 2
  /\ call.lc_dir.v[1] = File(LcPlain7Txt)
  /\ call.lc_dir.v[2] = File(LcData7Html)
  /\ DOMAIN ret = {700}
  /\ DOMAIN ret[700] = {<<".", "html">>}

====
